---- MODULE Spec2Model ----
(***************************************************************************)
(* The upload / conversion pipeline of the AutoCAD viewer server:          *)
(* MemStorage (the record store), the Express handlers of routes.ts        *)
(* (upload, PATCH status, DELETE) and processFile with its checkStatus     *)
(* poll loop against the APS translation service.                          *)
(*                                                                         *)
(* Atomicity.  Node runs one callback (an HTTP handler, a timer, the       *)
(* completion of a network request) at a time and drains the microtask     *)
(* queue before the next one.  Every MemStorage method finishes            *)
(* synchronously, so an `await storage.x()` never lets a timer or a        *)
(* request in; only a network round trip to APS or a setTimeout            *)
(* does.  One action below is therefore one callback together with the     *)
(* continuations that run before the next network wait or timer.           *)
(***************************************************************************)
EXTENDS Integers, Sequences, FiniteSets, TLC

VARIABLES
    files,      \* MemStorage.files: id -> File, the Map's keys are its DOMAIN
    currentId,  \* MemStorage.currentId
    runs,       \* the processFile invocations started so far, in start order
    now,        \* the wall clock read by new Date() / Date.now()
    alive,      \* FALSE once the Node process has exited
    budget,     \* what the environment may still do: load, free pending answers
    http,       \* the HTTP request the latest step served, with its response
    buckets,    \* the buckets the APS object store holds: bucketKey -> APSBucket
    env,        \* process.env: APS_CLIENT_ID and APS_CLIENT_SECRET
    listening,  \* TRUE once the modules are loaded and the server takes requests
    accessToken,  \* APSService.accessToken
    tokenExpiry,  \* APSService.tokenExpiry
    authCalls,    \* the calls of APSService.authenticate made so far
    detect      \* a file name and MIME type, with the result of detectFileType
                \* and of isCADFile for them

\* the fields of apsService and the calls of its authenticate
apsServiceVars == <<accessToken, tokenExpiry, authCalls>>

vars == <<files, currentId, runs, now, alive, budget, http, buckets,
          env, listening, accessToken, tokenExpiry, authCalls, detect>>

----------------------------------------------------------------------------
(* Bounds of the model *)

\* what the environment does in one behaviour: an uploaded file counts 2, a
\* PATCH or DELETE request, a tick of the clock and a pending manifest answer
\* count 1
MaxLoad == 5
\* the same, for the behaviours that follow a poll loop to its ceiling, where
\* the first maxAttempts + 1 pending answers to the first run count nothing
PollLoad == 4

\* calls of authenticate and ticks of the clock in a behaviour that follows
\* the token cache
AuthLoad == 4

\* files that fit in MaxLoad
MaxFiles == MaxLoad \div 2

----------------------------------------------------------------------------
(* Program constants *)

\* multer: limits.fileSize
fileSize == 50 * 1024 * 1024
\* const maxAttempts = 30
maxAttempts == 30
\* setTimeout(checkStatus, 10000)
PollDelay == 10000
\* setTimeout(..., 1000) of the non-CAD branch
StandardDelay == 1000

\* FILE_TYPES
AUTOCAD == "autocad"
PDF == "pdf"
IMAGE == "image"
DOCUMENT == "document"
OTHER_TYPE == "other"

\* FILE_STATUS
UPLOADING == "uploading"
PROCESSING == "processing"
READY == "ready"
ERROR == "error"

StatusValues == {UPLOADING, PROCESSING, READY, ERROR}

\* null in a text column, undefined as an argument, null in a timestamp column
Null == "<null>"
Undefined == "<undefined>"
NoDate == -1
\* the metadata column holding null
NullMetadata == [viewerType |-> Null]

----------------------------------------------------------------------------
(* Strings are sequences of one-character strings *)

UpperToLower ==
    [c \in {"A","B","C","D","E","F","G","H","I","J","K","L","M","N","O","P",
            "Q","R","S","T","U","V","W","X","Y","Z"} |->
        CASE c = "A" -> "a" [] c = "B" -> "b" [] c = "C" -> "c" [] c = "D" -> "d"
          [] c = "E" -> "e" [] c = "F" -> "f" [] c = "G" -> "g" [] c = "H" -> "h"
          [] c = "I" -> "i" [] c = "J" -> "j" [] c = "K" -> "k" [] c = "L" -> "l"
          [] c = "M" -> "m" [] c = "N" -> "n" [] c = "O" -> "o" [] c = "P" -> "p"
          [] c = "Q" -> "q" [] c = "R" -> "r" [] c = "S" -> "s" [] c = "T" -> "t"
          [] c = "U" -> "u" [] c = "V" -> "v" [] c = "W" -> "w" [] c = "X" -> "x"
          [] c = "Y" -> "y" [] c = "Z" -> "z"]

\* String.prototype.toLowerCase
toLowerCase(s) ==
    [i \in 1..Len(s) |->
        IF s[i] \in DOMAIN UpperToLower THEN UpperToLower[s[i]] ELSE s[i]]

\* the largest index of character c in s, 0 when there is none
LastIndexOf(s, c) ==
    LET hits == {i \in 1..Len(s) : s[i] = c}
    IN  IF hits = {} THEN 0 ELSE CHOOSE i \in hits : \A j \in hits : j <= i

\* String.prototype.startsWith
startsWith(s, prefix) ==
    /\ Len(prefix) <= Len(s)
    /\ SubSeq(s, 1, Len(prefix)) = prefix

\* String.prototype.includes
includes(s, part) ==
    \E i \in 1..(Len(s) + 1) :
        /\ i + Len(part) - 1 <= Len(s)
        /\ SubSeq(s, i, i + Len(part) - 1) = part

\* path.extname (posix): from the last dot of the last path segment to its end,
\* trailing separators skipped; empty when that segment has no dot, or its only
\* dot is its first character
extname(filename) ==
    LET chars == {i \in 1..Len(filename) : filename[i] # "/"}
        end   == IF chars = {} THEN 0 ELSE CHOOSE i \in chars : \A j \in chars : j <= i
        slash == LastIndexOf(SubSeq(filename, 1, end), "/")
        base  == SubSeq(filename, slash + 1, end)
        dot   == LastIndexOf(base, ".")
    IN  IF dot <= 1 \/ base = <<".", ".">> THEN <<>>
        ELSE SubSeq(base, dot, Len(base))

\* String.prototype.split: the parts of s between the occurrences of the
\* one-character separator
RECURSIVE split(_, _)
split(s, separator) ==
    LET hits == {i \in 1..Len(s) : s[i] = separator}
    IN  IF hits = {} THEN <<s>>
        ELSE LET first == CHOOSE i \in hits : \A j \in hits : i <= j
             IN  <<SubSeq(s, 1, first - 1)>>
                     \o split(SubSeq(s, first + 1, Len(s)), separator)

\* isCADFile of the client's file-utils: the part after the last dot, or the
\* whole name when it has no dot, is dwg, dxf or dwt
isCADFile(filename) ==
    LET parts == split(toLowerCase(filename), ".")
        ext   == parts[Len(parts)]
    IN  ext \in {<<"d","w","g">>, <<"d","x","f">>, <<"d","w","t">>}

\* the rule table with the PDF rule ahead of the AutoCAD rule
detectFileTypePdfFirst(filename, mimeType) ==
    LET ext == toLowerCase(extname(filename))
    IN  IF ext = <<".","p","d","f">>
                \/ mimeType = <<"a","p","p","l","i","c","a","t","i","o","n","/","p","d","f">>
            THEN PDF
        ELSE IF ext \in {<<".","d","w","g">>, <<".","d","x","f">>, <<".","d","w","t">>}
            THEN AUTOCAD
        ELSE IF ext \in {<<".","j","p","g">>, <<".","j","p","e","g">>, <<".","p","n","g">>,
                         <<".","g","i","f">>, <<".","b","m","p">>, <<".","w","e","b","p">>}
                \/ startsWith(mimeType, <<"i","m","a","g","e","/">>)
            THEN IMAGE
        ELSE IF ext \in {<<".","d","o","c">>, <<".","d","o","c","x">>, <<".","t","x","t">>,
                         <<".","r","t","f">>}
                \/ includes(mimeType, <<"d","o","c","u","m","e","n","t">>)
                \/ includes(mimeType, <<"t","e","x","t">>)
            THEN DOCUMENT
        ELSE OTHER_TYPE

\* detectFileType(filename, mimeType)
detectFileType(filename, mimeType) ==
    LET ext == toLowerCase(extname(filename))
    IN  IF ext \in {<<".","d","w","g">>, <<".","d","x","f">>, <<".","d","w","t">>}
            THEN AUTOCAD
        ELSE IF ext = <<".","p","d","f">>
                \/ mimeType = <<"a","p","p","l","i","c","a","t","i","o","n","/","p","d","f">>
            THEN PDF
        ELSE IF ext \in {<<".","j","p","g">>, <<".","j","p","e","g">>, <<".","p","n","g">>,
                         <<".","g","i","f">>, <<".","b","m","p">>, <<".","w","e","b","p">>}
                \/ startsWith(mimeType, <<"i","m","a","g","e","/">>)
            THEN IMAGE
        ELSE IF ext \in {<<".","d","o","c">>, <<".","d","o","c","x">>, <<".","t","x","t">>,
                         <<".","r","t","f">>}
                \/ includes(mimeType, <<"d","o","c","u","m","e","n","t">>)
                \/ includes(mimeType, <<"t","e","x","t">>)
            THEN DOCUMENT
        ELSE OTHER_TYPE

----------------------------------------------------------------------------
(* MemStorage *)

\* Map.set
MapSet(fs, id, file) == (id :> file) @@ fs

\* createFile: the record stored under the next id
createFile(insertFile, id, date) ==
    [id |-> id,
     originalName |-> insertFile.originalName,
     mimeType |-> insertFile.mimeType,
     size |-> insertFile.size,
     fileType |-> insertFile.fileType,
     status |-> insertFile.status,
     errorMessage |-> insertFile.errorMessage,
     metadata |-> insertFile.metadata,
     uploadedAt |-> date,
     processedAt |-> NoDate]

\* errorMessage || null
OrNull(errorMessage) ==
    IF errorMessage \in {Undefined, Null, ""} THEN Null ELSE errorMessage

\* updateFileStatus without its `if (!file) return undefined`: a missing
\* record is written back
updateFileStatusUpsert(fs, id, status, errorMessage, date) ==
    LET file == IF id \in DOMAIN fs THEN fs[id]
                ELSE [id |-> id, originalName |-> <<>>, mimeType |-> <<>>,
                      size |-> 0, fileType |-> OTHER_TYPE, status |-> status,
                      errorMessage |-> Null, metadata |-> NullMetadata,
                      uploadedAt |-> NoDate, processedAt |-> NoDate]
    IN  MapSet(fs, id,
            [file EXCEPT
                !.status = status,
                !.errorMessage = OrNull(errorMessage),
                !.processedAt = IF status = READY \/ status = ERROR
                                THEN date ELSE @])

\* updateFileStatus stamping processedAt for 'ready' only
updateFileStatusReadyOnly(fs, id, status, errorMessage, date) ==
    IF id \notin DOMAIN fs THEN fs
    ELSE MapSet(fs, id,
            [fs[id] EXCEPT
                !.status = status,
                !.errorMessage = OrNull(errorMessage),
                !.processedAt = IF status = READY THEN date ELSE @])

\* updateFileStatus writing a record without its metadata
updateFileStatusClearsMetadata(fs, id, status, errorMessage, date) ==
    IF id \notin DOMAIN fs THEN fs
    ELSE MapSet(fs, id,
            [fs[id] EXCEPT
                !.status = status,
                !.errorMessage = OrNull(errorMessage),
                !.metadata = NullMetadata,
                !.processedAt = IF status = READY \/ status = ERROR
                                THEN date ELSE @])

\* updateFileStatus stamping uploadedAt as well
updateFileStatusTouches(fs, id, status, errorMessage, date) ==
    IF id \notin DOMAIN fs THEN fs
    ELSE MapSet(fs, id,
            [fs[id] EXCEPT
                !.status = status,
                !.errorMessage = OrNull(errorMessage),
                !.uploadedAt = date,
                !.processedAt = IF status = READY \/ status = ERROR
                                THEN date ELSE @])

\* updateFileStatus: the store after the call made at time date
updateFileStatus(fs, id, status, errorMessage, date) ==
    IF id \notin DOMAIN fs THEN fs
    ELSE MapSet(fs, id,
            [fs[id] EXCEPT
                !.status = status,
                !.errorMessage = OrNull(errorMessage),
                !.processedAt = IF status = READY \/ status = ERROR
                                THEN date ELSE @])

\* updateFileMetadata writing back a copy of the record taken before the status
\* update that preceded it
updateFileMetadataStale(fs, id, metadata) ==
    IF id \notin DOMAIN fs THEN fs
    ELSE MapSet(fs, id,
            [fs[id] EXCEPT
                !.metadata = metadata,
                !.status = UPLOADING,
                !.processedAt = NoDate])

\* updateFileMetadata
updateFileMetadata(fs, id, metadata) ==
    IF id \notin DOMAIN fs THEN fs
    ELSE MapSet(fs, id, [fs[id] EXCEPT !.metadata = metadata])

\* deleteFile
deleteFile(fs, id) == [k \in DOMAIN fs \ {id} |-> fs[k]]

\* this.files.values(): a Map iterates in the order its keys were first set,
\* and keys are set in the order of the ids
RECURSIVE MapValues(_)
MapValues(fs) ==
    IF DOMAIN fs = {} THEN <<>>
    ELSE LET id == CHOOSE i \in DOMAIN fs : \A j \in DOMAIN fs : i <= j
         IN  <<fs[id]>> \o MapValues(deleteFile(fs, id))

\* the compare function of getAllFiles: b.uploadedAt - a.uploadedAt
CompareUploadedAt(a, b) == b.uploadedAt - a.uploadedAt

\* one element more in a sorted array: it goes behind every element that
\* does not compare greater than it (Array.prototype.sort is stable)
InsertSorted(sorted, x) ==
    LET ahead == {i \in 1..Len(sorted) : CompareUploadedAt(sorted[i], x) <= 0}
        k     == IF ahead = {} THEN 0
                 ELSE CHOOSE i \in ahead : \A j \in ahead : j <= i
    IN  SubSeq(sorted, 1, k) \o <<x>> \o SubSeq(sorted, k + 1, Len(sorted))

\* Array.prototype.sort with CompareUploadedAt
RECURSIVE SortByUploadedAt(_)
SortByUploadedAt(array) ==
    IF array = <<>> THEN <<>>
    ELSE InsertSorted(SortByUploadedAt(SubSeq(array, 1, Len(array) - 1)),
                      array[Len(array)])

\* getAllFiles
getAllFiles(fs) == SortByUploadedAt(MapValues(fs))

----------------------------------------------------------------------------
(* APS object names *)

\* the printable ASCII characters, quotes and backslash left out, each with
\* its code
Ascii ==
    { <<" ", 32>>, <<"!", 33>>, <<"#", 35>>, <<"$", 36>>, <<"%", 37>>, <<"&", 38>>,
      <<"(", 40>>, <<")", 41>>, <<"*", 42>>, <<"+", 43>>, <<",", 44>>, <<"-", 45>>,
      <<".", 46>>, <<"/", 47>>, <<"0", 48>>, <<"1", 49>>, <<"2", 50>>, <<"3", 51>>,
      <<"4", 52>>, <<"5", 53>>, <<"6", 54>>, <<"7", 55>>, <<"8", 56>>, <<"9", 57>>,
      <<":", 58>>, <<";", 59>>, <<"<", 60>>, <<"=", 61>>, <<">", 62>>, <<"?", 63>>,
      <<"@", 64>>, <<"A", 65>>, <<"B", 66>>, <<"C", 67>>, <<"D", 68>>, <<"E", 69>>,
      <<"F", 70>>, <<"G", 71>>, <<"H", 72>>, <<"I", 73>>, <<"J", 74>>, <<"K", 75>>,
      <<"L", 76>>, <<"M", 77>>, <<"N", 78>>, <<"O", 79>>, <<"P", 80>>, <<"Q", 81>>,
      <<"R", 82>>, <<"S", 83>>, <<"T", 84>>, <<"U", 85>>, <<"V", 86>>, <<"W", 87>>,
      <<"X", 88>>, <<"Y", 89>>, <<"Z", 90>>, <<"[", 91>>, <<"]", 93>>, <<"^", 94>>,
      <<"_", 95>>, <<"a", 97>>, <<"b", 98>>, <<"c", 99>>, <<"d", 100>>, <<"e", 101>>,
      <<"f", 102>>, <<"g", 103>>, <<"h", 104>>, <<"i", 105>>, <<"j", 106>>, <<"k", 107>>,
      <<"l", 108>>, <<"m", 109>>, <<"n", 110>>, <<"o", 111>>, <<"p", 112>>, <<"q", 113>>,
      <<"r", 114>>, <<"s", 115>>, <<"t", 116>>, <<"u", 117>>, <<"v", 118>>, <<"w", 119>>,
      <<"x", 120>>, <<"y", 121>>, <<"z", 122>>, <<"{", 123>>, <<"|", 124>>, <<"}", 125>>,
      <<"~", 126>> }

\* the byte Buffer.from(text) holds for an ASCII character
CharCode(c) == (CHOOSE pair \in Ascii : pair[1] = c)[2]

\* the base64 alphabet
Base64Alphabet ==
     <<"A","B","C","D","E","F","G","H","I","J","K","L","M","N","O","P">> \o
     <<"Q","R","S","T","U","V","W","X","Y","Z","a","b","c","d","e","f">> \o
     <<"g","h","i","j","k","l","m","n","o","p","q","r","s","t","u","v">> \o
     <<"w","x","y","z","0","1","2","3","4","5","6","7","8","9","+","/">>

Base64Char(sextet) == Base64Alphabet[sextet + 1]

\* toString('base64') of a sequence of bytes: four characters for every three
\* bytes, the last group padded with equals signs
Base64(bytes) ==
    LET byte(i)   == IF i <= Len(bytes) THEN bytes[i] ELSE 0
        sextet(k) ==
            LET first == 3 * ((k - 1) \div 4) + 1
                place == (k - 1) % 4
            IN  CASE place = 0 -> byte(first) \div 4
                  [] place = 1 -> (byte(first) % 4) * 16 + byte(first + 1) \div 16
                  [] place = 2 -> (byte(first + 1) % 16) * 4 + byte(first + 2) \div 64
                  [] OTHER     -> byte(first + 2) % 64
        filled    == (4 * Len(bytes) + 2) \div 3
    IN  [k \in 1..(4 * ((Len(bytes) + 2) \div 3)) |->
            IF k <= filled THEN Base64Char(sextet(k)) ELSE "="]

\* String(n) of a non-negative integer: its decimal digits
RECURSIVE Digits(_)
Digits(n) ==
    LET digit == <<"0","1","2","3","4","5","6","7","8","9">>[(n % 10) + 1]
    IN  IF n < 10 THEN <<digit>> ELSE Append(Digits(n \div 10), digit)

\* `autocad-viewer-${Date.now()}`: the name of the bucket whose key is made at
\* time date
BucketName(date) == <<"a","u","t","o","c","a","d","-","v","i","e","w","e","r","-">> \o Digits(date)

\* an object key made of the file name alone
ObjectKeyNameOnly(fileId, originalName) == originalName

\* `${fileId}-${originalName}`
ObjectKey(fileId, originalName) == Digits(fileId) \o <<"-">> \o originalName

\* uploadFile: objectId of the uploaded object
objectId(bucketKey, objectKey) ==
    <<"u","r","n",":","a","d","s","k",".","o","b","j","e","c","t","s",":","o","s",".","o","b","j","e","c","t",":">>
        \o BucketName(bucketKey) \o <<"/">> \o objectKey

\* Buffer.from(text): the bytes of an ASCII text
Bytes(text) == [i \in 1..Len(text) |-> CharCode(text[i])] \o <<>>

\* replace(/\+/g, '-').replace(/\//g, '_').replace(/=/g, '')
UrlSafe(base64) ==
    SelectSeq([i \in 1..Len(base64) |->
                  IF base64[i] = "+" THEN "-"
                  ELSE IF base64[i] = "/" THEN "_" ELSE base64[i]],
              LAMBDA c : c # "=")

\* encodeBase64Url: base64 with "+" replaced by "-", "/" by "_" and the
\* padding removed; each stage works on the value of the stage before
encodeBase64Url(text) ==
    CHOOSE url \in { UrlSafe(base64) :
                        base64 \in { Base64(bytes) \o <<>> :
                                        bytes \in { Bytes(t) : t \in {text} } } } : TRUE

\* the metadata of checkStatus with the object id in place of the urn made
\* from it
ApsMetadataRawObjectId(run, manifest) ==
    [viewerType |-> "aps",
     urn |-> objectId(run.bucketKey, run.objectKey),
     bucketKey |-> run.bucketKey,
     objectKey |-> run.objectKey,
     status |-> "translated",
     derivatives |-> manifest]

\* metadata written by checkStatus on success
ApsMetadata(run, manifest) ==
    [viewerType |-> "aps",
     urn |-> run.urn,
     bucketKey |-> run.bucketKey,
     objectKey |-> run.objectKey,
     status |-> "translated",
     derivatives |-> manifest]

\* metadata written by the non-CAD branch
StandardMetadata == [viewerType |-> "standard", processed |-> TRUE]

\* what a network call of apsService does: it returns or it throws
RemoteOutcome == {"ok", "throw"}

\* what an environment variable can hold: nothing, the empty string, a value
EnvValues == {Undefined, "", "set"}

\* !value of a string or undefined
Falsy(value) == value \in {Undefined, Null, ""}

\* the constructor of APSService with no check of its credentials
APSServiceUnchecked(clientId, clientSecret) == "ok"

\* the constructor of APSService: it throws unless both credentials are set
APSService(clientId, clientSecret) ==
    IF Falsy(clientId) \/ Falsy(clientSecret) THEN "throw" ELSE "ok"

\* the access_token of the answer to the token request of call c: the remote
\* service makes a new one for every request
Token(c) == "token-" \o ToString(c)

\* expires_in of a token answer, in units of the clock
ExpiresIn == {1, 2}

\* authenticate up to its return or its token request: the cached token is
\* returned while `new Date() < this.tokenExpiry`
authenticate(token, expiry, date) ==
    IF ~Falsy(token) /\ expiry # NoDate /\ date < expiry
    THEN [pc |-> "returned", token |-> token, requested |-> FALSE, expiry |-> expiry]
    ELSE [pc |-> "token", token |-> Undefined, requested |-> TRUE, expiry |-> NoDate]

\* no call of detectFileType is followed
NoDetect == [filename |-> <<>>, mimeType |-> <<>>, result |-> Null, isCAD |-> <<>>]

\* interface APSBucket, as far as a bucket is told from another
APSBucket(bucketKey, createdDate) ==
    [bucketKey |-> bucketKey, createdDate |-> createdDate]

\* createBucket has not returned
NoBucket == APSBucket(NoDate, NoDate)

\* HTTP status of an answer of the object store
Ok == 200
Conflict == 409
\* any failure other than a conflict: a 4xx or 5xx answer, a failed token
\* request, no answer at all
OtherFailure == 500

\* error.message of the error axios throws for an answer with this status
AxiosMessage(status) == "Request failed with status code " \o ToString(status)

\* the answers POST /oss/v2/buckets can have for this key
PostBucketAnswers(bks, bucketKey) ==
    IF bucketKey \in DOMAIN bks THEN {Conflict, OtherFailure} ELSE {Ok, OtherFailure}

\* createBucket whose catch rethrows every error
createBucketNoConflict(status) ==
    IF status = Ok THEN "return" ELSE "throw"

\* createBucket after the answer to its POST: it returns response.data, asks
\* for the details of the existing bucket, or rethrows
createBucket(status) ==
    IF status = Ok THEN "return"
    ELSE IF status = Conflict THEN "getBucketDetails"
    ELSE "throw"

\* status of the manifest returned by getTranslationStatus ("pending" stands for
\* every value other than success and failed)
ManifestStatus == {"success", "failed", "pending"}

----------------------------------------------------------------------------
(* processFile *)

\* positions of a run: the network call it awaits, a pending timer, or none
\*   "createBucket", "uploadFile", "translateFile", "getTranslationStatus"
\*   "getBucketDetails"  createBucket awaits the details of an existing bucket
\*   "timer"     a setTimeout is pending (run.timer is its delay)
\*   "done"      nothing is pending and nothing will run again
\*   "rejected"  checkStatus threw: its promise is rejected and nobody handles it
\* run.manifest is the status of the manifest the latest poll got (const status)

\* processFile sending every file type through APS
processFileAlwaysAps(fs, fileId, fileType, originalName, date) ==
    [files |-> updateFileStatus(fs, fileId, PROCESSING, Undefined, date),
     run   |-> [fileId |-> fileId, fileType |-> fileType,
                bucketKey |-> date,
                objectKey |-> ObjectKey(fileId, originalName),
                urn |-> <<>>, pc |-> "createBucket",
                attempts |-> 0, timer |-> 0, bucket |-> NoBucket,
                manifest |-> Null]]

\* processFile finishing a non-CAD file before it returns
processFileNoTimer(fs, fileId, fileType, originalName, date) ==
    IF fileType = AUTOCAD
    THEN [files |-> updateFileStatus(fs, fileId, PROCESSING, Undefined, date),
          run   |-> [fileId |-> fileId, fileType |-> fileType,
                     bucketKey |-> date,
                     objectKey |-> ObjectKey(fileId, originalName),
                     urn |-> <<>>, pc |-> "createBucket",
                     attempts |-> 0, timer |-> 0, bucket |-> NoBucket,
                     manifest |-> Null]]
    ELSE [files |-> updateFileMetadata(
                        updateFileStatus(fs, fileId, READY, Undefined, date),
                        fileId, StandardMetadata),
          run   |-> [fileId |-> fileId, fileType |-> fileType,
                     bucketKey |-> NoDate,
                     objectKey |-> <<>>,
                     urn |-> <<>>, pc |-> "done",
                     attempts |-> 0, timer |-> 0, bucket |-> NoBucket,
                     manifest |-> Null]]

\* processFile up to its first network wait or timer
processFile(fs, fileId, fileType, originalName, date) ==
    IF fileType = AUTOCAD
    THEN [files |-> updateFileStatus(fs, fileId, PROCESSING, Undefined, date),
          run   |-> [fileId |-> fileId, fileType |-> fileType,
                     bucketKey |-> date,
                     objectKey |-> ObjectKey(fileId, originalName),
                     urn |-> <<>>, pc |-> "createBucket",
                     attempts |-> 0, timer |-> 0, bucket |-> NoBucket,
                     manifest |-> Null]]
    ELSE [files |-> fs,
          run   |-> [fileId |-> fileId, fileType |-> fileType,
                     bucketKey |-> NoDate,
                     objectKey |-> <<>>,
                     urn |-> <<>>, pc |-> "timer",
                     attempts |-> 0, timer |-> StandardDelay, bucket |-> NoBucket,
                     manifest |-> Null]]

\* a catch (apsError) that records the error and goes on to the translation
apsErrorCaughtGoesOn(fs, run, call, date) ==
    [files |-> updateFileStatus(fs, run.fileId, ERROR, "APS error: " \o call, date),
     run   |-> [run EXCEPT !.pc = "translateFile"]]

\* a catch (apsError) that writes the record created last, as with a fileId
\* shared by all runs
apsErrorCaughtLatest(fs, run, call, date) ==
    LET ids    == DOMAIN fs \cup {run.fileId}
        latest == CHOOSE id \in ids : \A other \in ids : other <= id
    IN  [files |-> updateFileStatus(fs, latest, ERROR, "APS error: " \o call, date),
         run   |-> [run EXCEPT !.pc = "done"]]

\* catch (apsError): the remote step named call threw
apsErrorCaught(fs, run, call, date) ==
    [files |-> updateFileStatus(fs, run.fileId, ERROR, "APS error: " \o call, date),
     run   |-> [run EXCEPT !.pc = "done"]]

\* the non-CAD callback set with setInterval: it runs again after its delay
standardTimerRepeats(fs, run, date) ==
    [files |-> updateFileMetadata(
                   updateFileStatus(fs, run.fileId, READY, Undefined, date),
                   run.fileId, StandardMetadata),
     run   |-> [run EXCEPT !.pc = "timer"]]

\* the non-CAD timer callback
standardTimer(fs, run, date) ==
    [files |-> updateFileMetadata(
                   updateFileStatus(fs, run.fileId, READY, Undefined, date),
                   run.fileId, StandardMetadata),
     run   |-> [run EXCEPT !.pc = "done", !.timer = 0]]

\* checkStatus from its start to the getTranslationStatus request
checkStatusCall(run) ==
    [run EXCEPT !.attempts = @ + 1, !.pc = "getTranslationStatus", !.timer = 0]

\* checkStatus with `attempts <= maxAttempts`
checkStatusOffByOne(fs, run, manifest, date) ==
    IF manifest = "success"
    THEN [files |-> updateFileMetadata(
                        updateFileStatus(fs, run.fileId, READY, Undefined, date),
                        run.fileId, ApsMetadata(run, manifest)),
          run   |-> [run EXCEPT !.pc = "done"]]
    ELSE IF manifest = "failed"
    THEN [files |-> updateFileStatus(fs, run.fileId, ERROR,
                                     "APS translation failed", date),
          run   |-> [run EXCEPT !.pc = "done"]]
    ELSE IF run.attempts <= maxAttempts
    THEN [files |-> fs,
          run   |-> [run EXCEPT !.pc = "timer", !.timer = PollDelay]]
    ELSE [files |-> updateFileStatus(fs, run.fileId, ERROR,
                                     "Translation timeout", date),
          run   |-> [run EXCEPT !.pc = "done"]]

\* checkStatus whose last branch stops polling without writing the timeout
checkStatusSilentTimeout(fs, run, manifest, date) ==
    IF manifest = "success"
    THEN [files |-> updateFileMetadata(
                        updateFileStatus(fs, run.fileId, READY, Undefined, date),
                        run.fileId, ApsMetadata(run, manifest)),
          run   |-> [run EXCEPT !.pc = "done"]]
    ELSE IF manifest = "failed"
    THEN [files |-> updateFileStatus(fs, run.fileId, ERROR,
                                     "APS translation failed", date),
          run   |-> [run EXCEPT !.pc = "done"]]
    ELSE IF run.attempts < maxAttempts
    THEN [files |-> fs,
          run   |-> [run EXCEPT !.pc = "timer", !.timer = PollDelay]]
    ELSE [files |-> fs,
          run   |-> [run EXCEPT !.pc = "done"]]

\* checkStatus taking a failed manifest for one still in progress
checkStatusFailedRetries(fs, run, manifest, date) ==
    IF manifest = "success"
    THEN [files |-> updateFileMetadata(
                        updateFileStatus(fs, run.fileId, READY, Undefined, date),
                        run.fileId, ApsMetadata(run, manifest)),
          run   |-> [run EXCEPT !.pc = "done"]]
    ELSE IF run.attempts < maxAttempts
    THEN [files |-> fs,
          run   |-> [run EXCEPT !.pc = "timer", !.timer = PollDelay]]
    ELSE [files |-> updateFileStatus(fs, run.fileId, ERROR,
                                     "Translation timeout", date),
          run   |-> [run EXCEPT !.pc = "done"]]

\* checkStatus writing PROCESSING again at every pending manifest
checkStatusPendingWrites(fs, run, manifest, date) ==
    IF manifest = "success"
    THEN [files |-> updateFileMetadata(
                        updateFileStatus(fs, run.fileId, READY, Undefined, date),
                        run.fileId, ApsMetadata(run, manifest)),
          run   |-> [run EXCEPT !.pc = "done"]]
    ELSE IF manifest = "failed"
    THEN [files |-> updateFileStatus(fs, run.fileId, ERROR,
                                     "APS translation failed", date),
          run   |-> [run EXCEPT !.pc = "done"]]
    ELSE IF run.attempts < maxAttempts
    THEN [files |-> updateFileStatus(fs, run.fileId, PROCESSING, Undefined, date),
          run   |-> [run EXCEPT !.pc = "timer", !.timer = PollDelay]]
    ELSE [files |-> updateFileStatus(fs, run.fileId, ERROR,
                                     "Translation timeout", date),
          run   |-> [run EXCEPT !.pc = "done"]]

\* checkStatus after getTranslationStatus returned manifest
checkStatus(fs, run, manifest, date) ==
    IF manifest = "success"
    THEN [files |-> updateFileMetadata(
                        updateFileStatus(fs, run.fileId, READY, Undefined, date),
                        run.fileId, ApsMetadata(run, manifest)),
          run   |-> [run EXCEPT !.pc = "done"]]
    ELSE IF manifest = "failed"
    THEN [files |-> updateFileStatus(fs, run.fileId, ERROR,
                                     "APS translation failed", date),
          run   |-> [run EXCEPT !.pc = "done"]]
    ELSE IF run.attempts < maxAttempts
    THEN [files |-> fs,
          run   |-> [run EXCEPT !.pc = "timer", !.timer = PollDelay]]
    ELSE [files |-> updateFileStatus(fs, run.fileId, ERROR,
                                     "Translation timeout", date),
          run   |-> [run EXCEPT !.pc = "done"]]

----------------------------------------------------------------------------
(* Requests *)

\* files a client may send: originalname, mimetype, size
UploadInputs ==
    { [originalName |-> <<"p","l","a","n",".","d","w","g">>,
       mimeType |-> <<"a","p","p","l","i","c","a","t","i","o","n","/","a","c","a","d">>,
       size |-> 10 * 1024 * 1024],
      [originalName |-> <<"s","p","e","c",".","p","d","f">>,
       mimeType |-> <<"a","p","p","l","i","c","a","t","i","o","n","/","p","d","f">>,
       size |-> 2 * 1024 * 1024],
      [originalName |-> <<"h","u","g","e",".","d","w","g">>,
       mimeType |-> <<"a","p","p","l","i","c","a","t","i","o","n","/","a","c","a","d">>,
       size |-> 60 * 1024 * 1024] }

Batches == UNION {[1..n -> UploadInputs] : n \in 1..MaxFiles}

\* currentId never advanced
NextIdReused(id) == id

\* an id counter that starts over after its second id
NextIdWraps(id) == IF id >= 2 THEN 1 ELSE id + 1

\* this.currentId++
NextId(id) == id + 1

\* the for loop of the upload handler over req.files
RECURSIVE UploadLoop(_, _, _)
UploadLoop(batch, st, date) ==
    IF batch = <<>> THEN st
    ELSE LET file     == Head(batch)
             fileType == detectFileType(file.originalName, file.mimeType)
             fileData == [originalName |-> file.originalName,
                          mimeType |-> file.mimeType,
                          size |-> file.size,
                          fileType |-> fileType,
                          status |-> UPLOADING,
                          errorMessage |-> Null,
                          metadata |-> NullMetadata]
             id       == st.currentId
             savedFile == createFile(fileData, id, date)
             saved    == MapSet(st.files, id, savedFile)
             started  == processFile(saved, id, fileType, file.originalName, date)
         IN  UploadLoop(Tail(batch),
                        [files |-> started.files,
                         currentId |-> NextId(id),
                         runs |-> Append(st.runs, started.run),
                         uploadedFiles |-> Append(st.uploadedFiles, savedFile)],
                        date)

\* multer without limits: no file is too large
TooLargeNever(batch) == FALSE

\* multer: a file over limits.fileSize fails the request before the handler runs
TooLarge(batch) == \E i \in 1..Len(batch) : batch[i].size > fileSize

----------------------------------------------------------------------------
(* HTTP exchanges *)

\* the latest step served no HTTP request
NoHttp == [method |-> "none", id |-> 0, batch |-> <<>>, status |-> 0, body |-> <<>>]

\* multer passed its LIMIT_FILE_SIZE error to next(): the route handler did not
\* run and set no status
NextError == 0

\* res.status(status).json(body) of the upload handler
UploadResponse(batch, status, body) ==
    [method |-> "POST", id |-> 0, batch |-> batch, status |-> status, body |-> body]

\* an /api/files/:id handler that never answers 404
IdResponseAlwaysOk(method, id, status, body) ==
    [method |-> method, id |-> id, batch |-> <<>>, status |-> 200, body |-> body]

\* res.status(status).json(body) of a handler of /api/files/:id
IdResponse(method, id, status, body) ==
    [method |-> method, id |-> id, batch |-> <<>>, status |-> status, body |-> body]

----------------------------------------------------------------------------
(* Actions *)

Init ==
    /\ files = <<>>
    /\ currentId = 1
    /\ runs = <<>>
    /\ now = 0
    /\ alive = TRUE
    /\ budget = [load |-> MaxLoad, pending |-> 0]
    /\ http = NoHttp
    /\ buckets = <<>>
    /\ env \in [APS_CLIENT_ID : EnvValues, APS_CLIENT_SECRET : EnvValues]
    /\ listening = FALSE
    /\ accessToken = Undefined
    /\ tokenExpiry = NoDate
    /\ authCalls = <<>>
    /\ detect = NoDetect

\* the modules are loaded: aps-service.ts constructs apsService, and an error
\* it throws ends the process before the server listens
LoadModules ==
    /\ alive
    /\ ~listening
    /\ IF APSService(env.APS_CLIENT_ID, env.APS_CLIENT_SECRET) = "ok"
       THEN listening' = TRUE /\ alive' = alive
       ELSE listening' = FALSE /\ alive' = FALSE
    /\ UNCHANGED <<files, currentId, runs, now, budget, http, buckets>>
    /\ UNCHANGED <<env, apsServiceVars, detect>>

\* POST /api/files/upload, accepted
Upload(batch) ==
    /\ alive
    /\ listening
    /\ ~TooLarge(batch)
    /\ 2 * Len(batch) <= budget.load
    /\ LET st == UploadLoop(batch,
                    [files |-> files, currentId |-> currentId, runs |-> runs,
                     uploadedFiles |-> <<>>], now)
       IN  /\ files' = st.files
           /\ currentId' = st.currentId
           /\ runs' = st.runs
           /\ http' = UploadResponse(batch, 200, st.uploadedFiles)
    /\ budget' = [budget EXCEPT !.load = @ - 2 * Len(batch)]
    /\ UNCHANGED <<now, alive, buckets>>
    /\ UNCHANGED <<env, listening, apsServiceVars, detect>>

\* the files of batch before its first file over limits.fileSize
ValidPrefix(batch) ==
    LET over == {i \in 1..Len(batch) : batch[i].size > fileSize}
    IN  IF over = {} THEN batch
        ELSE SubSeq(batch, 1, (CHOOSE i \in over : \A j \in over : i <= j) - 1)

\* an upload handler that checks each file's size inside its loop: the files
\* before the oversize one are created and started, then the request fails
UploadRefusedPartial(batch) ==
    /\ alive
    /\ listening
    /\ TooLarge(batch)
    /\ 2 * Len(batch) <= budget.load
    /\ LET st == UploadLoop(ValidPrefix(batch),
                    [files |-> files, currentId |-> currentId, runs |-> runs,
                     uploadedFiles |-> <<>>], now)
       IN  /\ files' = st.files
           /\ currentId' = st.currentId
           /\ runs' = st.runs
    /\ http' = UploadResponse(batch, NextError, <<>>)
    /\ budget' = [budget EXCEPT !.load = @ - 2 * Len(ValidPrefix(batch))]
    /\ UNCHANGED <<now, alive, buckets>>
    /\ UNCHANGED <<env, listening, apsServiceVars, detect>>

\* POST /api/files/upload, refused by multer
UploadRefused(batch) ==
    /\ alive
    /\ listening
    /\ TooLarge(batch)
    /\ 2 * Len(batch) <= budget.load
    /\ http' = UploadResponse(batch, NextError, <<>>)
    /\ UNCHANGED <<files, currentId, runs, now, alive, budget, buckets>>
    /\ UNCHANGED <<env, listening, apsServiceVars, detect>>

\* PATCH /api/files/:id/status
PatchStatus(id, status, errorMessage) ==
    /\ alive
    /\ listening
    /\ budget.load > 0
    /\ files' = updateFileStatus(files, id, status, errorMessage, now)
    /\ http' = IF id \in DOMAIN files
               THEN IdResponse("PATCH", id, 200, <<files'[id]>>)
               ELSE IdResponse("PATCH", id, 404, <<>>)
    /\ budget' = [budget EXCEPT !.load = @ - 1]
    /\ UNCHANGED <<currentId, runs, now, alive, buckets>>
    /\ UNCHANGED <<env, listening, apsServiceVars, detect>>

\* GET /api/files
GetAllFiles ==
    /\ alive
    /\ listening
    /\ budget.load > 0
    /\ http' = IdResponse("GET", 0, 200, getAllFiles(files))
    /\ budget' = [budget EXCEPT !.load = @ - 1]
    /\ UNCHANGED <<files, currentId, runs, now, alive, buckets>>
    /\ UNCHANGED <<env, listening, apsServiceVars, detect>>

\* GET /api/files/:id
GetFile(id) ==
    /\ alive
    /\ listening
    /\ budget.load > 0
    /\ http' = IF id \in DOMAIN files
               THEN IdResponse("GET", id, 200, <<files[id]>>)
               ELSE IdResponse("GET", id, 404, <<>>)
    /\ budget' = [budget EXCEPT !.load = @ - 1]
    /\ UNCHANGED <<files, currentId, runs, now, alive, buckets>>
    /\ UNCHANGED <<env, listening, apsServiceVars, detect>>

\* DELETE /api/files/:id
DeleteFile(id) ==
    /\ alive
    /\ listening
    /\ budget.load > 0
    /\ files' = deleteFile(files, id)
    /\ http' = IdResponse("DELETE", id, IF id \in DOMAIN files THEN 200 ELSE 404, <<>>)
    /\ budget' = [budget EXCEPT !.load = @ - 1]
    /\ UNCHANGED <<currentId, runs, now, alive, buckets>>
    /\ UNCHANGED <<env, listening, apsServiceVars, detect>>

\* the POST of createBucket is answered: a new bucket is made and returned,
\* or the key is taken, or the request failed
CreateBucketReturns(r, status) ==
    /\ alive
    /\ runs[r].pc = "createBucket"
    /\ status \in PostBucketAnswers(buckets, runs[r].bucketKey)
    /\ buckets' = IF status = Ok
                  THEN MapSet(buckets, runs[r].bucketKey,
                              APSBucket(runs[r].bucketKey, now))
                  ELSE buckets
    /\ LET then == createBucket(status)
       IN  IF then = "return"
           THEN /\ runs' = [runs EXCEPT
                      ![r].bucket = buckets'[runs[r].bucketKey],
                      ![r].pc = "uploadFile"]
                /\ UNCHANGED files
           ELSE IF then = "getBucketDetails"
           THEN /\ runs' = [runs EXCEPT ![r].pc = "getBucketDetails"]
                /\ UNCHANGED files
           ELSE LET c == apsErrorCaught(files, runs[r], AxiosMessage(status), now)
                IN  /\ files' = c.files
                    /\ runs' = [runs EXCEPT ![r] = c.run]
    /\ http' = NoHttp
    /\ UNCHANGED <<currentId, now, alive, budget>>
    /\ UNCHANGED <<env, listening, apsServiceVars, detect>>

\* the GET .../details of createBucket is answered: the existing bucket is
\* returned, or the request failed and its error leaves createBucket
GetBucketDetailsReturns(r, outcome) ==
    /\ alive
    /\ runs[r].pc = "getBucketDetails"
    /\ IF outcome = "ok"
       THEN /\ runs[r].bucketKey \in DOMAIN buckets
            /\ runs' = [runs EXCEPT
                      ![r].bucket = buckets[runs[r].bucketKey],
                      ![r].pc = "uploadFile"]
            /\ UNCHANGED files
       ELSE LET c == apsErrorCaught(files, runs[r], AxiosMessage(OtherFailure), now)
            IN  /\ files' = c.files
                /\ runs' = [runs EXCEPT ![r] = c.run]
    /\ http' = NoHttp
    /\ UNCHANGED <<currentId, now, alive, budget, buckets>>
    /\ UNCHANGED <<env, listening, apsServiceVars, detect>>

\* uploadFile returns or throws
UploadFileReturns(r, outcome) ==
    /\ alive
    /\ runs[r].pc = "uploadFile"
    /\ IF outcome = "ok"
       THEN /\ runs' = [runs EXCEPT
                  ![r].urn = encodeBase64Url(
                                 objectId(runs[r].bucketKey, runs[r].objectKey)),
                  ![r].pc = "translateFile"]
            /\ UNCHANGED files
       ELSE LET c == apsErrorCaught(files, runs[r], "uploadFile", now)
            IN  /\ files' = c.files
                /\ runs' = [runs EXCEPT ![r] = c.run]
    /\ http' = NoHttp
    /\ UNCHANGED <<currentId, now, alive, budget, buckets>>
    /\ UNCHANGED <<env, listening, apsServiceVars, detect>>

\* translateFile returns or throws
TranslateFileReturns(r, outcome) ==
    /\ alive
    /\ runs[r].pc = "translateFile"
    /\ IF outcome = "ok"
       THEN /\ runs' = [runs EXCEPT ![r].pc = "timer", ![r].timer = PollDelay]
            /\ UNCHANGED files
       ELSE LET c == apsErrorCaught(files, runs[r], "translateFile", now)
            IN  /\ files' = c.files
                /\ runs' = [runs EXCEPT ![r] = c.run]
    /\ http' = NoHttp
    /\ UNCHANGED <<currentId, now, alive, budget, buckets>>
    /\ UNCHANGED <<env, listening, apsServiceVars, detect>>

\* a pending setTimeout of run r expires
TimerFires(r) ==
    /\ alive
    /\ runs[r].pc = "timer"
    /\ IF runs[r].fileType = AUTOCAD
       THEN /\ runs' = [runs EXCEPT ![r] = checkStatusCall(runs[r])]
            /\ UNCHANGED files
       ELSE LET c == standardTimer(files, runs[r], now)
            IN  /\ files' = c.files
                /\ runs' = [runs EXCEPT ![r] = c.run]
    /\ http' = NoHttp
    /\ UNCHANGED <<currentId, now, alive, budget, buckets>>
    /\ UNCHANGED <<env, listening, apsServiceVars, detect>>

\* the free pending answers go to the first run
FreePending(r) == r = 1 /\ budget.pending > 0

\* getTranslationStatus returns a manifest
ManifestReturns(r, manifest) ==
    /\ alive
    /\ runs[r].pc = "getTranslationStatus"
    /\ manifest = "pending" => (FreePending(r) \/ budget.load > 0)
    /\ LET c == checkStatus(files, runs[r], manifest, now)
       IN  /\ files' = c.files
           /\ runs' = [runs EXCEPT ![r] = [c.run EXCEPT !.manifest = manifest]]
    /\ budget' = IF manifest # "pending" THEN budget
                 ELSE IF FreePending(r)
                 THEN [budget EXCEPT !.pending = @ - 1]
                 ELSE [budget EXCEPT !.load = @ - 1]
    /\ http' = NoHttp
    /\ UNCHANGED <<currentId, now, alive, buckets>>
    /\ UNCHANGED <<env, listening, apsServiceVars, detect>>

\* getTranslationStatus throws inside checkStatus, which a timer called: the
\* rejection is unhandled, and Node either reports it and goes on or exits
ManifestThrows(r) ==
    /\ alive
    /\ runs[r].pc = "getTranslationStatus"
    /\ runs' = [runs EXCEPT ![r].pc = "rejected"]
    /\ alive' \in BOOLEAN
    /\ http' = NoHttp
    /\ UNCHANGED <<files, currentId, now, budget, buckets>>
    /\ UNCHANGED <<env, listening, apsServiceVars, detect>>

\* time passes
Tick ==
    /\ alive
    /\ listening
    /\ budget.load > 0
    /\ now' = now + 1
    /\ budget' = [budget EXCEPT !.load = @ - 1]
    /\ http' = NoHttp
    /\ UNCHANGED <<files, currentId, runs, alive, buckets>>
    /\ UNCHANGED <<env, listening, apsServiceVars, detect>>

\* every id a record can have
----------------------------------------------------------------------------
(* APSService.authenticate, called by createBucket, uploadFile, translateFile,
   getTranslationStatus and getViewerToken *)

\* a caller calls authenticate
Authenticate ==
    /\ alive
    /\ listening
    /\ budget.load > 0
    /\ authCalls' = Append(authCalls, authenticate(accessToken, tokenExpiry, now))
    /\ budget' = [budget EXCEPT !.load = @ - 1]
    /\ UNCHANGED <<files, currentId, runs, now, alive, http, buckets>>
    /\ UNCHANGED <<env, listening, accessToken, tokenExpiry, detect>>

\* the token request of call c is answered: with a token, which is cached with
\* its expiry and returned, or with a failure, which axios throws
TokenRequestReturns(c, outcome, expires_in) ==
    /\ alive
    /\ authCalls[c].pc = "token"
    /\ IF outcome = "ok"
       THEN /\ accessToken' = Token(c)
            /\ tokenExpiry' = now + expires_in
            /\ authCalls' = [authCalls EXCEPT
                      ![c].pc = "returned",
                      ![c].token = Token(c),
                      ![c].expiry = now + expires_in]
       ELSE /\ authCalls' = [authCalls EXCEPT ![c].pc = "threw"]
            /\ UNCHANGED <<accessToken, tokenExpiry>>
    /\ UNCHANGED <<files, currentId, runs, now, alive, budget, http, buckets>>
    /\ UNCHANGED <<env, listening, detect>>

\* the server is up with its credentials set and nothing cached
InitAuth ==
    /\ files = <<>>
    /\ currentId = 1
    /\ runs = <<>>
    /\ now = 0
    /\ alive = TRUE
    /\ budget = [load |-> AuthLoad, pending |-> 0]
    /\ http = NoHttp
    /\ buckets = <<>>
    /\ env = [APS_CLIENT_ID |-> "set", APS_CLIENT_SECRET |-> "set"]
    /\ listening = TRUE
    /\ accessToken = Undefined
    /\ tokenExpiry = NoDate
    /\ authCalls = <<>>
    /\ detect = NoDetect

NextAuth ==
    \/ Authenticate
    \/ \E c \in DOMAIN authCalls, outcome \in RemoteOutcome, expires_in \in ExpiresIn :
          TokenRequestReturns(c, outcome, expires_in)
    \/ Tick

SpecAuth == InitAuth /\ [][NextAuth]_vars

----------------------------------------------------------------------------
(* detectFileType as a function of its two arguments *)

\* file names: the extensions of the rule table in both cases, an extension
\* outside it, a name without a dot, a dot file, two extensions, a trailing
\* separator, a trailing dot
Filenames ==
    {<<"a",".","d","w","g">>,
     <<"a",".","D","W","G">>,
     <<"a",".","d","x","f">>,
     <<"a",".","D","w","t">>,
     <<"a",".","p","d","f">>,
     <<"a",".","p","n","g">>,
     <<"a",".","j","p","e","g">>,
     <<"a",".","t","x","t">>,
     <<"a",".","d","o","c","x">>,
     <<"a",".","z","i","p">>,
     <<"d","w","g">>,
     <<".","d","w","g">>,
     <<"a",".","d","w","g",".","p","d","f">>,
     <<"a",".","d","w","g","/">>,
     <<"a",".">>}

\* MIME types: the ones the rule table names, and ones it does not
MimeTypes ==
    {<<"a","p","p","l","i","c","a","t","i","o","n","/","p","d","f">>,
     <<"i","m","a","g","e","/","p","n","g">>,
     <<"i","m","a","g","e","/","v","n","d",".","d","w","g">>,
     <<"t","e","x","t","/","p","l","a","i","n">>,
     <<"a","p","p","l","i","c","a","t","i","o","n","/","m","s","w","o","r","d">>,
     <<"a","p","p","l","i","c","a","t","i","o","n","/","v","n","d",".","o","p","e","n","x","m","l","f","o","r","m","a","t","s","-","o","f","f","i","c","e","d","o","c","u","m","e","n","t",".","w","o","r","d","p","r","o","c","e","s","s","i","n","g","m","l",".","d","o","c","u","m","e","n","t">>,
     <<"a","p","p","l","i","c","a","t","i","o","n","/","o","c","t","e","t","-","s","t","r","e","a","m">>}

\* detectFileType is about to be called with some file name and MIME type
InitDetect ==
    /\ files = <<>>
    /\ currentId = 1
    /\ runs = <<>>
    /\ now = 0
    /\ alive = TRUE
    /\ budget = [load |-> 0, pending |-> 0]
    /\ http = NoHttp
    /\ buckets = <<>>
    /\ env = [APS_CLIENT_ID |-> "set", APS_CLIENT_SECRET |-> "set"]
    /\ listening = TRUE
    /\ accessToken = Undefined
    /\ tokenExpiry = NoDate
    /\ authCalls = <<>>
    /\ detect \in [filename : Filenames, mimeType : MimeTypes, result : {Null},
                   isCAD : {<<>>}]

\* the call returns
DetectFileType ==
    /\ detect.result = Null
    /\ detect.filename # <<>>
    /\ detect' = [detect EXCEPT !.result = detectFileType(detect.filename, detect.mimeType)]
    /\ UNCHANGED <<files, currentId, runs, now, alive, budget, http, buckets>>
    /\ UNCHANGED <<env, listening, apsServiceVars>>

\* the client calls isCADFile with the file name
IsCADFile ==
    /\ detect.isCAD = <<>>
    /\ detect.filename # <<>>
    /\ detect' = [detect EXCEPT !.isCAD = <<isCADFile(detect.filename)>>]
    /\ UNCHANGED <<files, currentId, runs, now, alive, budget, http, buckets>>
    /\ UNCHANGED <<env, listening, apsServiceVars>>

NextDetect == DetectFileType \/ IsCADFile

SpecDetect == InitDetect /\ [][NextDetect]_vars

----------------------------------------------------------------------------

Ids == 1..(MaxFiles + 1)

\* the ids a request names: those handed out so far, and one never handed out
RequestIds == 1..currentId

Next ==
    \/ LoadModules
    \/ \E batch \in Batches : Upload(batch)
    \/ \E batch \in Batches : UploadRefused(batch)
    \/ \E id \in RequestIds, status \in StatusValues,
          errorMessage \in {Undefined, "manual"} :
          PatchStatus(id, status, errorMessage)
    \/ \E id \in RequestIds : DeleteFile(id)
    \/ GetAllFiles
    \/ \E id \in RequestIds : GetFile(id)
    \/ \E r \in DOMAIN runs, status \in {Ok, Conflict, OtherFailure} :
          CreateBucketReturns(r, status)
    \/ \E r \in DOMAIN runs, outcome \in RemoteOutcome :
          GetBucketDetailsReturns(r, outcome)
    \/ \E r \in DOMAIN runs, outcome \in RemoteOutcome : UploadFileReturns(r, outcome)
    \/ \E r \in DOMAIN runs, outcome \in RemoteOutcome : TranslateFileReturns(r, outcome)
    \/ \E r \in DOMAIN runs : TimerFires(r)
    \/ \E r \in DOMAIN runs, manifest \in ManifestStatus :
          ManifestReturns(r, manifest)
    \/ \E r \in DOMAIN runs : ManifestThrows(r)
    \/ Tick

Spec == Init /\ [][Next]_vars

\* a behaviour that follows one poll loop as far as the remote service keeps
\* answering pending
InitPoll ==
    /\ files = <<>>
    /\ currentId = 1
    /\ runs = <<>>
    /\ now = 0
    /\ alive = TRUE
    /\ budget = [load |-> PollLoad, pending |-> maxAttempts + 1]
    /\ http = NoHttp
    /\ buckets = <<>>
    /\ env \in [APS_CLIENT_ID : EnvValues, APS_CLIENT_SECRET : EnvValues]
    /\ listening = FALSE
    /\ accessToken = Undefined
    /\ tokenExpiry = NoDate
    /\ authCalls = <<>>
    /\ detect = NoDetect

SpecPoll == InitPoll /\ [][Next]_vars

\* what the event loop and the network guarantee to run r: a pending timer
\* expires, and a pending network call returns or throws
RunStep(r) ==
    /\ r \in DOMAIN runs
    /\ \/ \E status \in {Ok, Conflict, OtherFailure} : CreateBucketReturns(r, status)
       \/ \E outcome \in RemoteOutcome : GetBucketDetailsReturns(r, outcome)
       \/ \E outcome \in RemoteOutcome : UploadFileReturns(r, outcome)
       \/ \E outcome \in RemoteOutcome : TranslateFileReturns(r, outcome)
       \/ TimerFires(r)
       \/ \E manifest \in ManifestStatus : ManifestReturns(r, manifest)
       \/ ManifestThrows(r)

Fairness == \A r \in 1..MaxFiles : WF_vars(RunStep(r))

FairSpec == Spec /\ Fairness

----------------------------------------------------------------------------
(* State functions used by the properties *)

Stored(id) == id \in DOMAIN files

\* ids handed out so far
Created(id) == id \in 1..(currentId - 1)

Deleted(id) == Created(id) /\ ~Stored(id)

Terminal(id) == Stored(id) /\ files[id].status \in {READY, ERROR}

\* a run with a timer or a network call pending
Active(r) == runs[r].pc \notin {"done", "rejected"}

RunsOf(id) == {r \in DOMAIN runs : runs[r].fileId = id}

----------------------------------------------------------------------------
(* C1 *)

\* C1: every accepted upload creates its record in status UPLOADING and, unless
\* the record is deleted, its status eventually becomes READY or ERROR, whatever
\* the remote calls do (each returns or throws).
C1_EventuallyTerminal ==
    \A id \in 1..MaxFiles :
        <>Stored(id) => <>(Deleted(id) \/ Terminal(id))

----------------------------------------------------------------------------
(* C2 *)

\* a network call of run r threw in this step
Threw(r) ==
    \/ /\ runs[r].pc \in {"createBucket", "getBucketDetails", "uploadFile",
                        "translateFile"}
       /\ runs'[r].pc = "done"
    \/ /\ runs[r].pc = "getTranslationStatus"
       /\ runs'[r].pc = "rejected"

\* C2: an exception raised by bucket creation, object upload, translation
\* submission or a manifest poll sets the record (when it is stored) to ERROR
\* with a non-empty errorMessage, and the run schedules no further poll.
C2_ExceptionSetsError ==
    [][\A r \in DOMAIN runs :
          Threw(r) =>
              /\ runs[r].fileId \in DOMAIN files =>
                    /\ files'[runs[r].fileId].status = ERROR
                    /\ files'[runs[r].fileId].errorMessage \notin {Null, ""}
              /\ runs'[r].pc \notin {"timer", "getTranslationStatus"}]_vars

----------------------------------------------------------------------------
(* C3 *)

\* C3: a retry (the status of a stored record goes from ERROR to PROCESSING)
\* starts a new pipeline run for that record: right after it a run of that
\* file has a network call or a timer pending.
C3_RetryRestartsPipeline ==
    [][\A id \in Ids :
          ( /\ id \in DOMAIN files
            /\ files[id].status = ERROR
            /\ id \in DOMAIN files'
            /\ files'[id].status = PROCESSING )
          => \E r \in DOMAIN runs' :
                /\ runs'[r].fileId = id
                /\ runs'[r].pc \notin {"done", "rejected"}]_vars

----------------------------------------------------------------------------
(* C4 *)

\* C4: a run polls the manifest at most maxAttempts times; a poll starts only
\* when a timer of PollDelay expires, one poll per timer; a run that has
\* stopped never polls again.
C4_PollCeiling ==
    /\ [](\A r \in DOMAIN runs :
            /\ runs[r].attempts <= maxAttempts
            /\ (runs[r].fileType = AUTOCAD /\ runs[r].pc = "timer")
                  => runs[r].timer = PollDelay)
    /\ [][\A r \in DOMAIN runs :
            /\ runs'[r].attempts # runs[r].attempts =>
                  /\ runs[r].pc = "timer"
                  /\ runs[r].timer = PollDelay
                  /\ runs'[r].attempts = runs[r].attempts + 1
                  /\ runs'[r].pc = "getTranslationStatus"
            /\ runs[r].pc \in {"done", "rejected"} => runs'[r] = runs[r]]_vars

\* the last allowed poll of a run is in flight
C4_Witness ==
    \E r \in DOMAIN runs :
        /\ runs[r].attempts = maxAttempts
        /\ runs[r].pc = "getTranslationStatus"

----------------------------------------------------------------------------
(* C5 *)

\* the manifest of run r came back pending in this step
PendingAnswer(r) ==
    /\ runs[r].pc = "getTranslationStatus"
    /\ runs'[r].pc # "getTranslationStatus"
    /\ budget' # budget

\* a pending answer ends the run exactly at poll maxAttempts, and then the
\* stored record becomes ERROR with the message text
TimeoutAfterMaxAttempts(text) ==
    \A r \in DOMAIN runs :
        PendingAnswer(r) =>
            IF runs[r].attempts < maxAttempts
            THEN runs'[r].pc = "timer" /\ files' = files
            ELSE /\ runs[r].attempts = maxAttempts
                 /\ runs'[r].pc = "done"
                 /\ runs[r].fileId \in DOMAIN files =>
                       /\ files'[runs[r].fileId].status = ERROR
                       /\ files'[runs[r].fileId].errorMessage = text

\* C5 as stated: under pending answers only, a run polls exactly 30 times and
\* then sets ERROR with errorMessage "translation timeout".
C5_TimeoutAsStated == [][TimeoutAfterMaxAttempts("translation timeout")]_vars

\* C5 amended: the errorMessage written is "Translation timeout".
C5_Timeout == [][TimeoutAfterMaxAttempts("Translation timeout")]_vars

\* a run gave up after maxAttempts polls and its record shows the timeout
C5_Witness ==
    \E r \in DOMAIN runs :
        /\ runs[r].attempts = maxAttempts
        /\ runs[r].pc = "done"
        /\ runs[r].fileId \in DOMAIN files
        /\ files[runs[r].fileId].status = ERROR
        /\ files[runs[r].fileId].errorMessage = "Translation timeout"

----------------------------------------------------------------------------
(* C6 *)

\* C6: once a record is deleted no record with its id is ever stored again,
\* whatever its pipeline writes afterwards.
C6_NoResurrection ==
    [][\A id \in Ids : Deleted(id) => Deleted(id)']_vars

\* the record of a run was deleted while the run is waiting for a manifest:
\* every write the run makes from here on goes to a missing record
C6_Witness ==
    \E r \in DOMAIN runs :
        /\ Deleted(runs[r].fileId)
        /\ runs[r].attempts > 0
        /\ runs[r].pc = "getTranslationStatus"

----------------------------------------------------------------------------
(* C7 *)

\* C7: a stored record whose status is READY has its metadata.
C7_ReadyHasMetadata ==
    \A id \in DOMAIN files :
        files[id].status = READY => files[id].metadata # NullMetadata

----------------------------------------------------------------------------
(* C8 *)

Rank(status) ==
    CASE status = UPLOADING -> 0
      [] status = PROCESSING -> 1
      [] OTHER -> 2

\* C8: the status of a stored record only moves forward along
\* UPLOADING -> PROCESSING -> READY | ERROR, except ERROR -> PROCESSING.
C8_MonotonicStatus ==
    [][\A id \in Ids :
          (id \in DOMAIN files /\ id \in DOMAIN files') =>
              \/ files'[id].status = files[id].status
              \/ Rank(files'[id].status) > Rank(files[id].status)
              \/ files[id].status = ERROR /\ files'[id].status = PROCESSING]_vars

----------------------------------------------------------------------------
(* C9 *)

----------------------------------------------------------------------------
(* C10 *)

\* C10: a stored record has an errorMessage exactly when its status is ERROR.
C10_ErrorMessageIffError ==
    \A id \in DOMAIN files :
        files[id].errorMessage # Null <=> files[id].status = ERROR

----------------------------------------------------------------------------
(* C11 *)

\* processedAt is non-null exactly when the status is READY or ERROR
ProcessedAtIffTerminal(file) ==
    file.processedAt # NoDate <=> file.status \in {READY, ERROR}

\* a move the lifecycle allows: none, forward, or the retry ERROR -> PROCESSING
LifecycleMove(from, to) ==
    \/ to = from
    \/ Rank(to) > Rank(from)
    \/ from = ERROR /\ to = PROCESSING

\* C11 as stated: a stored record's processedAt is non-null exactly when its
\* status is READY or ERROR, and every move of the lifecycle keeps it so, the
\* retry from ERROR back to PROCESSING included.
C11_ProcessedAtIffTerminal ==
    [][\A id \in DOMAIN files \cap DOMAIN files' :
          ( /\ ProcessedAtIffTerminal(files[id])
            /\ LifecycleMove(files[id].status, files'[id].status) )
          => ProcessedAtIffTerminal(files'[id])]_vars

\* C11 amended: a stored record whose status is READY or ERROR has a non-null
\* processedAt, a record that never had such a status has none, and a write
\* of any other status keeps the processedAt the record had.
C11_TerminalHasProcessedAt ==
    /\ [](\A id \in DOMAIN files :
            files[id].status \in {READY, ERROR} => files[id].processedAt # NoDate)
    /\ [][\A id \in DOMAIN files \cap DOMAIN files' :
            files'[id].status \notin {READY, ERROR}
                => files'[id].processedAt = files[id].processedAt]_vars
    /\ [][\A id \in DOMAIN files' \ DOMAIN files :
            files'[id].processedAt = NoDate
            \/ files'[id].status \in {READY, ERROR}]_vars

\* a retry took a failed record back to PROCESSING: it keeps its processedAt
C11_Witness ==
    \E id \in DOMAIN files :
        /\ files[id].status = PROCESSING
        /\ files[id].processedAt # NoDate
        /\ \E r \in RunsOf(id) : runs[r].pc = "done"

----------------------------------------------------------------------------
(* C12 *)

\* C12: once a record has a processedAt, no later operation changes it.
C12_ProcessedAtSetOnce ==
    [][\A id \in DOMAIN files \cap DOMAIN files' :
          files[id].processedAt # NoDate
              => files'[id].processedAt = files[id].processedAt]_vars

----------------------------------------------------------------------------
(* C13 *)

\* the timer of the non-CAD run r expires in this step
StandardTimerFires(r) ==
    /\ runs[r].fileType # AUTOCAD
    /\ runs[r].pc = "timer"
    /\ runs'[r].pc = "done"

\* C13: a non-CAD record is moved to PROCESSING before its delay, so the delay
\* never ends on a record still UPLOADING, and it takes a record that is
\* stored to READY with metadata {viewerType: "standard", processed: true}.
C13_StandardViaProcessing ==
    [][\A r \in DOMAIN runs :
          (StandardTimerFires(r) /\ runs[r].fileId \in DOMAIN files) =>
              /\ files[runs[r].fileId].status # UPLOADING
              /\ files'[runs[r].fileId].status = READY
              /\ files'[runs[r].fileId].metadata = StandardMetadata]_vars

----------------------------------------------------------------------------
(* C14 *)

\* C14: the run of a file whose detected type is not AUTOCAD never has a call
\* of the APS client pending and never got anything from one: no poll was
\* counted, no bucket returned, no urn made.
C14_StandardNeverRemote ==
    \A r \in DOMAIN runs :
        runs[r].fileType # AUTOCAD =>
            /\ runs[r].pc \in {"timer", "done"}
            /\ runs[r].attempts = 0
            /\ runs[r].bucket = NoBucket
            /\ runs[r].urn = <<>>

\* a non-CAD run is over and its record is READY
C14_Witness ==
    \E r \in DOMAIN runs :
        /\ runs[r].fileType # AUTOCAD
        /\ runs[r].pc = "done"
        /\ runs[r].fileId \in DOMAIN files
        /\ files[runs[r].fileId].status = READY
        /\ files[runs[r].fileId].metadata = StandardMetadata

----------------------------------------------------------------------------
(* C15 *)

\* the step served an upload request with a file over the ceiling
OversizeUploadServed ==
    /\ http'.method = "POST"
    /\ \E i \in 1..Len(http'.batch) : http'.batch[i].size > fileSize

\* C15: an upload over the 50 MiB ceiling is rejected and creates no record:
\* no stored record is over the ceiling, and the step that serves such an
\* upload leaves the store, the id counter and the runs as they were.
C15_OversizeRejected ==
    /\ [](\A id \in DOMAIN files : files[id].size <= fileSize)
    /\ [][OversizeUploadServed =>
            /\ http'.status # 200
            /\ files' = files
            /\ currentId' = currentId
            /\ runs' = runs]_vars

\* an upload of one oversize file was just refused by a server holding a record
C15_Witness ==
    /\ http.method = "POST"
    /\ Len(http.batch) = 1
    /\ http.batch[1].size > fileSize
    /\ http.status = NextError
    /\ files # <<>>

----------------------------------------------------------------------------
(* C16 *)

\* C16: an upload request of several files is served as a whole: when it is
\* rejected no record of it is stored and no run of it is started, and when it
\* is accepted every file of it has its record and its run.
C16_AllOrNothing ==
    [][(http'.method = "POST" /\ Len(http'.batch) > 1) =>
          IF http'.status = 200
          THEN /\ currentId' = currentId + Len(http'.batch)
               /\ Len(runs') = Len(runs) + Len(http'.batch)
               /\ Len(http'.body) = Len(http'.batch)
               /\ \A id \in currentId..(currentId' - 1) : id \in DOMAIN files'
          ELSE /\ files' = files
               /\ currentId' = currentId
               /\ runs' = runs]_vars

\* a request whose first file is valid and whose second is oversize was refused
C16_Witness ==
    /\ http.method = "POST"
    /\ http.status # 200
    /\ Len(http.batch) = 2
    /\ http.batch[1].size <= fileSize
    /\ http.batch[2].size > fileSize

----------------------------------------------------------------------------
(* C17 *)

\* the poll of run r was answered in this step with a manifest of this status
Answered(r, manifest) ==
    /\ runs[r].pc = "getTranslationStatus"
    /\ runs'[r].pc \in {"timer", "done"}
    /\ runs'[r].manifest = manifest

\* C17: a success manifest makes the stored record READY with metadata of
\* viewerType "aps" that carries the run's urn, bucketKey and objectKey, none of
\* them empty, and the manifest received.
C17_SuccessMetadata ==
    [][\A r \in DOMAIN runs :
          (Answered(r, "success") /\ runs[r].fileId \in DOMAIN files) =>
              LET file == files'[runs[r].fileId]
              IN  /\ file.status = READY
                  /\ file.errorMessage = Null
                  /\ file.metadata.viewerType = "aps"
                  /\ file.metadata.urn = runs[r].urn
                  /\ file.metadata.urn =
                        encodeBase64Url(objectId(runs[r].bucketKey, runs[r].objectKey))
                  /\ file.metadata.bucketKey = runs[r].bucketKey
                  /\ file.metadata.bucketKey # NoDate
                  /\ file.metadata.objectKey = runs[r].objectKey
                  /\ file.metadata.objectKey # <<>>
                  /\ file.metadata.derivatives = "success"
                  /\ runs'[r].pc = "done"]_vars

\* a translated record is stored
C17_Witness ==
    \E id \in DOMAIN files :
        /\ files[id].status = READY
        /\ files[id].metadata.viewerType = "aps"
        /\ \E r \in RunsOf(id) : runs[r].manifest = "success"

----------------------------------------------------------------------------
(* C18 *)

\* a failed manifest ends the run, and the stored record becomes ERROR with
\* the message text and the metadata it had
FailedSetsError(text) ==
    \A r \in DOMAIN runs :
        Answered(r, "failed") =>
            /\ runs'[r].pc = "done"
            /\ runs[r].fileId \in DOMAIN files =>
                  /\ files'[runs[r].fileId].status = ERROR
                  /\ files'[runs[r].fileId].errorMessage = text
                  /\ files'[runs[r].fileId].metadata = files[runs[r].fileId].metadata

\* C18 as stated: a failed manifest sets ERROR with errorMessage
\* "translation failed", writes no metadata and schedules no further poll.
C18_FailedAsStated == [][FailedSetsError("translation failed")]_vars

\* C18 amended: the errorMessage written is "APS translation failed".
C18_Failed == [][FailedSetsError("APS translation failed")]_vars

\* a run ended on a failed manifest and its record shows it
C18_Witness ==
    \E r \in DOMAIN runs :
        /\ runs[r].manifest = "failed"
        /\ runs[r].pc = "done"
        /\ runs[r].fileId \in DOMAIN files
        /\ files[runs[r].fileId].status = ERROR
        /\ files[runs[r].fileId].errorMessage = "APS translation failed"

----------------------------------------------------------------------------
(* C19 *)

\* C19: a poll that finds the manifest pending before the last attempt changes
\* no record: starting it only counts the attempt, and its answer only sets the
\* timer of the next poll.
C19_PendingChangesNothing ==
    [][\A r \in DOMAIN runs :
          /\ (runs[r].pc = "timer" /\ runs'[r].pc = "getTranslationStatus") =>
                /\ files' = files
                /\ runs' = [runs EXCEPT ![r].attempts = @ + 1,
                                        ![r].pc = "getTranslationStatus",
                                        ![r].timer = 0]
          /\ (Answered(r, "pending") /\ runs[r].attempts < maxAttempts) =>
                /\ files' = files
                /\ currentId' = currentId
                /\ buckets' = buckets
                /\ runs' = [runs EXCEPT ![r].pc = "timer",
                                        ![r].timer = PollDelay,
                                        ![r].manifest = "pending"]]_vars

\* a run is in its second poll while its record is stored
C19_Witness ==
    \E r \in DOMAIN runs :
        /\ runs[r].attempts = 2
        /\ runs[r].manifest = "pending"
        /\ runs[r].pc = "getTranslationStatus"
        /\ runs[r].fileId \in DOMAIN files

----------------------------------------------------------------------------
(* C20 *)

\* C20: createBucket never fails on a conflict answer: it then asks for the
\* existing bucket; every call that returns for a key returns the one bucket
\* the store holds under that key; every other failure reaches the caller.
C20_CreateBucketIdempotent ==
    /\ [](\A id \in DOMAIN files :
            files[id].errorMessage # "APS error: " \o AxiosMessage(Conflict))
    /\ [](\A r \in DOMAIN runs :
            runs[r].bucket # NoBucket =>
                /\ runs[r].bucketKey \in DOMAIN buckets
                /\ runs[r].bucket = buckets[runs[r].bucketKey]
                /\ runs[r].bucket.bucketKey = runs[r].bucketKey)
    /\ [](\A r1, r2 \in DOMAIN runs :
            ( /\ runs[r1].bucketKey = runs[r2].bucketKey
              /\ runs[r1].bucket # NoBucket
              /\ runs[r2].bucket # NoBucket ) => runs[r1].bucket = runs[r2].bucket)
    /\ [][\A r \in DOMAIN runs :
            (runs[r].pc = "createBucket" /\ runs'[r].pc # "createBucket") =>
                IF runs[r].bucketKey \in DOMAIN buckets
                THEN \/ runs'[r].pc = "getBucketDetails"
                     \/ /\ runs'[r].pc = "done"
                        /\ runs[r].fileId \in DOMAIN files =>
                              files'[runs[r].fileId].errorMessage =
                                  "APS error: " \o AxiosMessage(OtherFailure)
                ELSE \/ /\ runs'[r].pc = "uploadFile"
                        /\ runs'[r].bucket = buckets'[runs[r].bucketKey]
                     \/ /\ runs'[r].pc = "done"
                        /\ runs[r].fileId \in DOMAIN files =>
                              files'[runs[r].fileId].errorMessage =
                                  "APS error: " \o AxiosMessage(OtherFailure)]_vars

\* two runs called createBucket with one key and both got the bucket: one made
\* it, the other met the conflict and fetched it
C20_Witness ==
    \E r1, r2 \in DOMAIN runs :
        /\ r1 # r2
        /\ runs[r1].bucketKey = runs[r2].bucketKey
        /\ runs[r1].bucket # NoBucket
        /\ runs[r2].bucket = runs[r1].bucket

----------------------------------------------------------------------------
(* C23 *)

\* a credential of the APS client is absent
CredentialsAbsent == Falsy(env.APS_CLIENT_ID) \/ Falsy(env.APS_CLIENT_SECRET)

\* C23: with a credential absent the server never listens, so no request is
\* served, no record created and no run or call of the client started; the
\* first step of the process, the construction of the client, ends it.
C23_FailsAtStartup ==
    /\ [](CredentialsAbsent =>
            /\ ~listening
            /\ files = <<>>
            /\ currentId = 1
            /\ runs = <<>>
            /\ http = NoHttp
            /\ authCalls = <<>>)
    /\ [][CredentialsAbsent => (alive /\ ~alive')]_vars

\* the process ended at startup for want of the client secret
C23_Witness ==
    /\ ~Falsy(env.APS_CLIENT_ID)
    /\ Falsy(env.APS_CLIENT_SECRET)
    /\ ~alive
    /\ ~listening

----------------------------------------------------------------------------
(* C22 *)

\* C22: the list GET /api/files answers holds every stored record once and
\* nothing else, and a record created later (it has the larger id) always
\* stands before a record created earlier, equal uploadedAt or not.
C22_ListNewestFirst ==
    (http.method = "GET" /\ http.id = 0) =>
        /\ Len(http.body) = Cardinality(DOMAIN files)
        /\ \A id \in DOMAIN files :
              \E i \in 1..Len(http.body) : http.body[i] = files[id]
        /\ \A i, j \in 1..Len(http.body) :
              i < j => http.body[i].id > http.body[j].id

----------------------------------------------------------------------------
(* C24 *)

\* C24: a GET, PATCH or DELETE of an id that is not stored answers 404 and
\* leaves the store as it was; on a stored id each answers 200, the GET
\* changes nothing and the DELETE removes that record and no other.
C24_MissingIdIs404 ==
    [][(http'.method \in {"GET", "PATCH", "DELETE"} /\ http'.id # 0) =>
          IF http'.id \notin DOMAIN files
          THEN http'.status = 404 /\ files' = files
          ELSE /\ http'.status = 200
               /\ http'.method = "GET" =>
                     files' = files /\ http'.body = <<files[http'.id]>>
               /\ http'.method = "PATCH" =>
                     DOMAIN files' = DOMAIN files /\ http'.body = <<files'[http'.id]>>
               /\ http'.method = "DELETE" =>
                     files' = [id \in DOMAIN files \ {http'.id} |-> files[id]]]_vars

\* a record was deleted and a second DELETE of its id was just answered 404
C24_Witness ==
    /\ http.method = "DELETE"
    /\ http.status = 404
    /\ Deleted(http.id)

----------------------------------------------------------------------------
(* C25 *)

----------------------------------------------------------------------------
(* C21 *)

\* a call of authenticate is made in this step
AuthenticateCalled == Len(authCalls') = Len(authCalls) + 1

\* C21: once a call has got a token from the remote service, every call made
\* before the expiry advertised with that token returns that token and sends
\* no request; a call sends a request only when nothing is cached or the
\* cached token has expired; a failed request leaves the cache as it was.
C21_TokenReused ==
    /\ [][AuthenticateCalled =>
            LET call == authCalls'[Len(authCalls')]
            IN  /\ \A c \in DOMAIN authCalls :
                      ( /\ authCalls[c].requested
                        /\ authCalls[c].pc = "returned"
                        /\ now < authCalls[c].expiry )
                      => /\ call.pc = "returned"
                         /\ ~call.requested
                         /\ call.token = authCalls[c].token
                /\ call.requested =>
                      (accessToken = Undefined \/ now >= tokenExpiry)]_vars
    /\ [][\A c \in DOMAIN authCalls :
            (authCalls[c].pc = "token" /\ authCalls'[c].pc = "threw") =>
                (accessToken' = accessToken /\ tokenExpiry' = tokenExpiry)]_vars

----------------------------------------------------------------------------
(* C26 *)

FileTypes == {AUTOCAD, PDF, IMAGE, DOCUMENT, OTHER_TYPE}

\* the extension of the file name, in lower case, is one of exts
HasExtension(filename, exts) == toLowerCase(extname(filename)) \in exts

\* the rules of the table, each by itself
CadRule(filename, mimeType) ==
    HasExtension(filename, {<<".","d","w","g">>, <<".","d","x","f">>, <<".","d","w","t">>})
PdfRule(filename, mimeType) ==
    \/ HasExtension(filename, {<<".","p","d","f">>})
    \/ mimeType = <<"a","p","p","l","i","c","a","t","i","o","n","/","p","d","f">>
ImageRule(filename, mimeType) ==
    \/ HasExtension(filename, {<<".","j","p","g">>, <<".","j","p","e","g">>, <<".","p","n","g">>,
                               <<".","g","i","f">>, <<".","b","m","p">>, <<".","w","e","b","p">>})
    \/ startsWith(mimeType, <<"i","m","a","g","e","/">>)
DocumentRule(filename, mimeType) ==
    \/ HasExtension(filename, {<<".","d","o","c">>, <<".","d","o","c","x">>, <<".","t","x","t">>, <<".","r","t","f">>})
    \/ includes(mimeType, <<"d","o","c","u","m","e","n","t">>)
    \/ includes(mimeType, <<"t","e","x","t">>)

\* C26: the result of detectFileType is the tag of the first rule of the table
\* that applies, in the order AUTOCAD, PDF, IMAGE, DOCUMENT, and OTHER when none
\* does; a CAD extension gives AUTOCAD whatever the MIME type; the result is
\* always one of the five tags.
C26_RuleTable ==
    detect.result # Null =>
        LET f == detect.filename
            m == detect.mimeType
        IN  /\ detect.result \in FileTypes
            /\ detect.result = AUTOCAD <=> CadRule(f, m)
            /\ detect.result = PDF <=> (~CadRule(f, m) /\ PdfRule(f, m))
            /\ detect.result = IMAGE <=>
                  (~CadRule(f, m) /\ ~PdfRule(f, m) /\ ImageRule(f, m))
            /\ detect.result = DOCUMENT <=>
                  ( /\ ~CadRule(f, m) /\ ~PdfRule(f, m) /\ ~ImageRule(f, m)
                    /\ DocumentRule(f, m) )
            /\ detect.result = OTHER_TYPE <=>
                  ( /\ ~CadRule(f, m) /\ ~PdfRule(f, m) /\ ~ImageRule(f, m)
                    /\ ~DocumentRule(f, m) )

\* C26 witness: a file with a CAD extension in upper case and the MIME type
\* application/pdf was classified AUTOCAD
C26_Witness ==
    /\ detect.filename = <<"a",".","D","W","G">>
    /\ detect.mimeType = <<"a","p","p","l","i","c","a","t","i","o","n","/","p","d","f">>
    /\ detect.result = AUTOCAD

----------------------------------------------------------------------------
(* C27 *)

\* the upload handler answered 200 in this step
UploadAccepted == http'.method = "POST" /\ http'.status = 200

\* C27: an accepted upload creates each record with status UPLOADING, null
\* errorMessage, null metadata and null processedAt, and answers without waiting
\* for the pipeline: every record of the 200 response has status UPLOADING and,
\* when the response is sent, no created record is READY or ERROR and each
\* one's run still has work pending.
C27_AnsweredBeforePipeline ==
    [][UploadAccepted =>
        /\ Len(http'.body) = Len(http'.batch)
        /\ \A i \in 1..Len(http'.body) :
              LET created == http'.body[i]
                  id      == created.id
              IN  /\ id = currentId + i - 1
                  /\ created.originalName = http'.batch[i].originalName
                  /\ created.status = UPLOADING
                  /\ created.errorMessage = Null
                  /\ created.metadata = NullMetadata
                  /\ created.processedAt = NoDate
                  /\ id \notin DOMAIN files
                  /\ id \in DOMAIN files'
                  /\ files'[id].status \in {UPLOADING, PROCESSING}
                  /\ files'[id].processedAt = NoDate
                  /\ runs'[id].fileId = id
                  /\ runs'[id].pc \in {"createBucket", "timer"}]_vars

\* C27 witness: the 200 response shows the record of a CAD file as UPLOADING
\* while its pipeline has already set the stored record to PROCESSING and
\* awaits its first remote call
C27_Witness ==
    /\ http.method = "POST"
    /\ http.status = 200
    /\ http.body # <<>>
    /\ http.body[1].status = UPLOADING
    /\ Stored(http.body[1].id)
    /\ files[http.body[1].id].status = PROCESSING
    /\ runs[http.body[1].id].pc = "createBucket"

----------------------------------------------------------------------------
(* C28 *)

\* C28: while a record is stored, its id, originalName, size, mimeType,
\* fileType and uploadedAt keep the values createFile gave them: no step of a
\* request or of a pipeline changes them.
C28_CreationFieldsImmutable ==
    [][\A id \in Ids :
        (id \in DOMAIN files /\ id \in DOMAIN files') =>
            /\ files'[id].id = files[id].id
            /\ files'[id].originalName = files[id].originalName
            /\ files'[id].size = files[id].size
            /\ files'[id].mimeType = files[id].mimeType
            /\ files'[id].fileType = files[id].fileType
            /\ files'[id].uploadedAt = files[id].uploadedAt]_vars

\* C28 witness: a record went through its pipeline to READY at a later time
\* than its upload and had its status set by a request after that
C28_Witness ==
    \E id \in DOMAIN files :
        /\ files[id].metadata # NullMetadata
        /\ files[id].processedAt > files[id].uploadedAt
        /\ http.method = "PATCH"
        /\ http.id = id
        /\ http.status = 200

----------------------------------------------------------------------------
(* C29 *)

\* the PATCH handler updated record id in this step
Patched(id) == http'.method = "PATCH" /\ http'.id = id /\ http'.status = 200

\* the run of record id took a step
RunStepped(id) == id \in DOMAIN runs /\ runs'[id] # runs[id]

\* C29: writes to one record are applied whole and one after another: a status
\* update by a request keeps the metadata the pipeline wrote, the pipeline's
\* metadata update keeps the status update that came with it, and a step that
\* writes one id leaves the record of every other id as it was.
C29_NoLostUpdate ==
    [][\A id \in Ids :
        (id \in DOMAIN files /\ id \in DOMAIN files') =>
            LET old == files[id]
                new == files'[id]
            IN  /\ Patched(id) =>
                      /\ new.metadata = old.metadata
                      /\ new = http'.body[1]
                /\ new.metadata # old.metadata =>
                      /\ RunStepped(id)
                      /\ new.status = READY
                      /\ new.processedAt = now
                /\ new.status # old.status => (Patched(id) \/ RunStepped(id))
                /\ new # old => (Patched(id) \/ RunStepped(id))
                /\ (\E other \in Ids \ {id} : Patched(other)) => new = old]_vars

\* C29 witness: a record carries the metadata its pipeline wrote and a status
\* a later request wrote
C29_Witness ==
    \E id \in DOMAIN files :
        /\ files[id].metadata = StandardMetadata
        /\ files[id].status = PROCESSING
        /\ http.method = "PATCH"
        /\ http.id = id

----------------------------------------------------------------------------
(* C30 *)

\* C30: record ids are unique and never reused: a record is stored under its
\* own id, run r belongs to record r, createFile takes an id no record was ever
\* created with, deleted ones included, and a deleted id is never stored
\* again, so a write of the run of a deleted record reaches no record.
C30_IdsNeverReused ==
    /\ [](/\ \A id \in DOMAIN files : files[id].id = id /\ Created(id)
          /\ Len(runs) = currentId - 1
          /\ \A r \in DOMAIN runs : runs[r].fileId = r)
    /\ [][/\ currentId' >= currentId
          /\ \A id \in DOMAIN files' \ DOMAIN files : ~Created(id) /\ Created(id)'
          /\ \A id \in Ids : Deleted(id) => Deleted(id)'
          /\ \A r \in DOMAIN runs :
                (Deleted(r) /\ runs'[r] # runs[r]) => files' = files]_vars

\* C30 witness: record 1 is deleted, its run has taken its last step, and
\* record 2 is stored
C30_Witness ==
    /\ Deleted(1)
    /\ Stored(2)
    /\ runs[1].pc = "done"
    /\ files[2].status \in {UPLOADING, PROCESSING}

----------------------------------------------------------------------------
(* C31 *)

\* the place of a position in the order of the steps of an AUTOCAD run
StepOrder(pc) ==
    CASE pc \in {"createBucket", "getBucketDetails"} -> 1
      [] pc = "uploadFile" -> 2
      [] pc = "translateFile" -> 3
      [] pc = "timer" -> 4
      [] pc = "getTranslationStatus" -> 5
      [] OTHER -> 6

Stopped(r) == runs[r].pc \in {"done", "rejected"}

\* C31: an AUTOCAD run starts with the PROCESSING write and the bucket
\* creation pending, then goes on to the object upload, the translation
\* submission and the first manifest poll in that order, each one only after
\* the one before has returned; a run whose step threw has stopped and takes no
\* later step.
C31_StepsInOrder ==
    /\ [](\A r \in DOMAIN runs :
            runs[r].fileType = AUTOCAD =>
                /\ StepOrder(runs[r].pc) \in 2..5 => runs[r].bucket # NoBucket
                /\ StepOrder(runs[r].pc) \in 3..5 => runs[r].urn # <<>>
                /\ runs[r].attempts > 0 => runs[r].urn # <<>>
                /\ runs[r].urn # <<>> => runs[r].bucket # NoBucket)
    /\ [][\A r \in DOMAIN runs' :
            runs'[r].fileType = AUTOCAD =>
                IF r \notin DOMAIN runs
                THEN /\ runs'[r].pc = "createBucket"
                     /\ files'[r].status = PROCESSING
                ELSE /\ Stopped(r) => runs'[r] = runs[r]
                     /\ Threw(r) => Stopped(r)'
                     /\ (runs'[r].pc # runs[r].pc /\ ~Stopped(r)') =>
                           \/ StepOrder(runs'[r].pc) = StepOrder(runs[r].pc) + 1
                           \/ runs[r].pc = "createBucket" /\ runs'[r].pc = "getBucketDetails"
                           \/ runs[r].pc = "getTranslationStatus" /\ runs'[r].pc = "timer"]_vars

\* C31 witness: the object upload of a run threw after its bucket was created:
\* the run has stopped with no urn and no poll made, its record in ERROR
C31_Witness ==
    \E r \in DOMAIN runs :
        /\ runs[r].fileType = AUTOCAD
        /\ runs[r].pc = "done"
        /\ runs[r].bucket # NoBucket
        /\ runs[r].urn = <<>>
        /\ runs[r].attempts = 0
        /\ Stored(r)
        /\ files[r].status = ERROR

----------------------------------------------------------------------------
(* C32 *)

\* a step that served no request changed the record of run r: the run wrote it
RunWrote(r) == http' = NoHttp /\ Stored(r) /\ files'[r] # files[r]

\* C32: a run writes a terminal status at most once: the step in which a run
\* writes the store after its start writes READY together with the metadata, or
\* ERROR with the metadata left alone, and is the run's last step: the run
\* has stopped and neither steps nor writes again.
C32_OneTerminalWrite ==
    [][\A r \in DOMAIN runs :
        /\ Stopped(r) => (runs'[r] = runs[r] /\ ~RunWrote(r))
        /\ RunWrote(r) =>
              /\ runs'[r].pc = "done"
              /\ \A id \in DOMAIN files \ {r} : files'[id] = files[id]
              /\ files'[r].status \in {READY, ERROR}
              /\ files'[r].processedAt = now
              /\ files'[r].status = READY => files'[r].metadata # NullMetadata
              /\ files'[r].status = ERROR => files'[r].metadata = files[r].metadata
        /\ (runs'[r] # runs[r] /\ runs'[r].pc # "done") => files' = files]_vars

\* C32 witness: a run wrote ERROR, stopped, and time has passed since
C32_Witness ==
    \E r \in DOMAIN runs :
        /\ runs[r].pc = "done"
        /\ runs[r].fileType = AUTOCAD
        /\ Stored(r)
        /\ files[r].status = ERROR
        /\ files[r].metadata = NullMetadata
        /\ files[r].processedAt # NoDate
        /\ files[r].processedAt < now

----------------------------------------------------------------------------
(* C33 *)

\* C33: a step of the run of file A changes no record but the one stored under
\* A's id, whatever the other runs are doing; when A's record is deleted, the
\* step changes no record at all; the start of a run writes its own record only.
C33_RunWritesOwnRecord ==
    [][/\ \A r \in DOMAIN runs :
            runs'[r] # runs[r] =>
                /\ DOMAIN files' = DOMAIN files
                /\ \A id \in DOMAIN files \ {runs[r].fileId} : files'[id] = files[id]
                /\ Deleted(runs[r].fileId) => files' = files
       /\ http' = NoHttp =>
            \A id \in DOMAIN files :
                (id \in DOMAIN files' /\ files'[id] # files[id]) =>
                    \E r \in DOMAIN runs : runs[r].fileId = id /\ runs'[r] # runs[r]
       /\ UploadAccepted =>
            \A id \in DOMAIN files : id \in DOMAIN files' /\ files'[id] = files[id]]_vars

\* C33 witness: of two runs started together, the first failed after its
\* record was deleted while the second, its bucket created, goes on with its
\* record untouched
C33_Witness ==
    /\ Deleted(1)
    /\ runs[1].pc = "done"
    /\ runs[1].fileType = AUTOCAD
    /\ Stored(2)
    /\ runs[2].pc = "uploadFile"
    /\ files[2].status = PROCESSING
    /\ files[2].errorMessage = Null

----------------------------------------------------------------------------
(* C34 *)

\* the fields of a record but status, errorMessage, processedAt and metadata
SameCreationFields(a, b) ==
    /\ a.id = b.id
    /\ a.originalName = b.originalName
    /\ a.mimeType = b.mimeType
    /\ a.size = b.size
    /\ a.fileType = b.fileType
    /\ a.uploadedAt = b.uploadedAt

\* C34: updateFileStatus changes status, errorMessage and processedAt of the
\* record and nothing else, metadata included; updateFileMetadata changes
\* metadata and nothing else; so the status update of a request keeps the
\* metadata the record had, the one written at READY included, and the
\* metadata update at READY keeps what the status update before it wrote.
C34_UpdateFrames ==
    /\ [](\A id \in DOMAIN files :
            /\ \A status \in StatusValues, errorMessage \in {Undefined, "manual"} :
                  LET fs == updateFileStatus(files, id, status, errorMessage, now)
                  IN  /\ DOMAIN fs = DOMAIN files
                      /\ \A other \in DOMAIN files \ {id} : fs[other] = files[other]
                      /\ SameCreationFields(fs[id], files[id])
                      /\ fs[id].metadata = files[id].metadata
                      /\ fs[id].status = status
            /\ LET fs == updateFileMetadata(files, id, StandardMetadata)
               IN  /\ DOMAIN fs = DOMAIN files
                   /\ \A other \in DOMAIN files \ {id} : fs[other] = files[other]
                   /\ SameCreationFields(fs[id], files[id])
                   /\ fs[id].status = files[id].status
                   /\ fs[id].errorMessage = files[id].errorMessage
                   /\ fs[id].processedAt = files[id].processedAt
                   /\ fs[id].metadata = StandardMetadata)
    /\ [][\A id \in DOMAIN files :
            /\ Patched(id) =>
                  /\ SameCreationFields(files'[id], files[id])
                  /\ files'[id].metadata = files[id].metadata
            /\ (RunWrote(id) /\ files'[id].metadata # files[id].metadata) =>
                  /\ SameCreationFields(files'[id], files[id])
                  /\ files'[id].status = READY
                  /\ files'[id].errorMessage = Null
                  /\ files'[id].processedAt = now]_vars

\* C34 witness: a record that got its metadata at READY was then set to ERROR
\* with a message by a request, and still has that metadata
C34_Witness ==
    \E id \in DOMAIN files :
        /\ http.method = "PATCH"
        /\ http.id = id
        /\ files[id].status = ERROR
        /\ files[id].errorMessage = "manual"
        /\ files[id].metadata = StandardMetadata

----------------------------------------------------------------------------
(* C35 *)

CadRuns == {r \in DOMAIN runs : runs[r].fileType = AUTOCAD}

ApsRecords == {id \in DOMAIN files : files[id].metadata.viewerType = "aps"}

\* C35: two AUTOCAD runs of different files never name the same remote
\* object: their pairs of bucketKey and objectKey differ, so do the object
\* ids made from them and the urns made from those, in the runs and in the
\* metadata of the records, also when both runs have the same bucketKey.
C35_DistinctRemoteObjects ==
    /\ \A r1, r2 \in CadRuns :
          r1 # r2 =>
              /\ <<runs[r1].bucketKey, runs[r1].objectKey>>
                    # <<runs[r2].bucketKey, runs[r2].objectKey>>
              /\ objectId(runs[r1].bucketKey, runs[r1].objectKey)
                    # objectId(runs[r2].bucketKey, runs[r2].objectKey)
              /\ runs[r1].urn # <<>> => runs[r1].urn # runs[r2].urn
    /\ \A id1, id2 \in ApsRecords :
          id1 # id2 =>
              /\ files[id1].metadata.urn # files[id2].metadata.urn
              /\ <<files[id1].metadata.bucketKey, files[id1].metadata.objectKey>>
                    # <<files[id2].metadata.bucketKey, files[id2].metadata.objectKey>>

\* C35 witness: two files of the same name, uploaded in one request and so
\* with the same bucketKey, are both READY with different urns in their
\* metadata
C35_Witness ==
    /\ {1, 2} \subseteq ApsRecords
    /\ files[1].originalName = files[2].originalName
    /\ files[1].metadata.bucketKey = files[2].metadata.bucketKey
    /\ files[1].metadata.urn # files[2].metadata.urn
    /\ files[1].status = READY
    /\ files[2].status = READY

----------------------------------------------------------------------------
(* C36 *)

\* C36: for every file name and MIME type, isCADFile of the client returns
\* true exactly when detectFileType of the server returns AUTOCAD, for names
\* without a dot and names that are a dot and an extension as well.
C36_ClientAgreesWithServer ==
    (detect.result # Null /\ detect.isCAD # <<>>) =>
        (detect.isCAD[1] <=> detect.result = AUTOCAD)

====
